---- MODULE Spec2Model ----
(***************************************************************************)
(* A model of bgrep.py: main(), BgrepApplication.run()/search()/           *)
(* on_match_found() and the FileIterator that feeds run() its sources.     *)
(*                                                                         *)
(* Bytes are integers 0..255, byte strings are sequences of them.  Python  *)
(* indexes are 0-based and kept as such in size, index, last_match_end     *)
(* and size_adjust; sequences are 1-based, so buffer[i] of the source is   *)
(* buffer[i + 1] here.                                                     *)
(*                                                                         *)
(* The inputs of one invocation (pattern, argsKind, paths, stdin) are      *)
(* chosen in Init and never change.  A path argument is modelled by what   *)
(* glob.iglob() and _walk() expand it to: a sequence of files, empty when  *)
(* it matches nothing.  A file is a record of its bytes (data), whether    *)
(* open() succeeds (openable) and whether a readinto() on it may raise     *)
(* IOError (bad).                                                          *)
(*                                                                         *)
(* The code never computes the stream offset of a match; base is a ghost   *)
(* variable holding the stream offset of buffer[0], so that the emitted    *)
(* records can be located in the source's byte stream.                     *)
(***************************************************************************)
EXTENDS Integers, Sequences, FiniteSets, TLC

\* ------------------------------------------------------------------------
\* Bounds of the model
\* ------------------------------------------------------------------------

\* longest pattern drawn in Init
MaxPatLen == 3

\* longest exhaustively enumerated standard-input haystack
MaxHayLen == 5

\* most path arguments on the command line
MaxPaths == 2

\* the inner loop of search() never ends on an empty pattern; stop recording
\* after this many emitted records
MaxRecords == 4

\* stand-in for the 16384 of bgrep.py:189-190, small enough for the buffer to
\* fill up and still larger than pattern + context
BufferFloor == 24

\* most trailing bytes appended to the long haystacks of InitContext
MaxTail == 23

\* ------------------------------------------------------------------------
\* Program constants
\* ------------------------------------------------------------------------

EXIT_SUCCESS == 0

EXIT_ERROR == 1

EXIT_ARGS == 2

\* trailing context bytes taken after a match (s_end = index + len + 20)
ContextLen == 20

\* first and last printable ASCII codes, and the replacement (space)
PrintableLo == 32

PrintableHi == 126

SpaceByte == 32

\* ------------------------------------------------------------------------
\* Byte-string helpers (Python bytearray semantics)
\* ------------------------------------------------------------------------

Min(a, b) == IF a < b THEN a ELSE b

\* b[lo:hi] for 0 <= lo, hi <= len(b); empty when hi <= lo
Slice(b, lo, hi) == IF hi <= lo THEN << >> ELSE SubSeq(b, lo + 1, hi)

\* bytearray(n): n zero bytes
ZeroBytes(n) == [i \in 1..n |-> 0]

\* a find() that searches up to the capacity of the buffer, not up to end
FindIgnoringEnd(b, sub, start, end) ==
    LET cands == {i \in start..(Len(b) - Len(sub)) :
                     Slice(b, i, i + Len(sub)) = sub}
    IN IF cands = {} THEN -1
       ELSE CHOOSE i \in cands : \A j \in cands : i <= j

\* bytearray.find(sub, start, end) with 0 <= start and end <= len(b): the
\* lowest i >= start with b[i:i+len(sub)] == sub and i + len(sub) <= end, or
\* -1.  An empty sub is found at start whenever start <= end.
Find(b, sub, start, end) ==
    LET cands == {i \in start..(end - Len(sub)) :
                     Slice(b, i, i + Len(sub)) = sub}
    IN IF cands = {} THEN -1
       ELSE CHOOSE i \in cands : \A j \in cands : i <= j

\* bytearray.endswith(suffix, 0, end)
EndsWith(b, suffix, end) ==
    /\ Len(suffix) <= end
    /\ Slice(b, end - Len(suffix), end) = suffix

\* ------------------------------------------------------------------------
\* BgrepApplication.search(): buffer sizing, the carry check
\* ------------------------------------------------------------------------

\* a buffer of the floor size whatever the pattern
BufferSizeFloorOnly(pat) == BufferFloor

\* buffer_size of search(): twice the pattern length, at least the floor
BufferSize(pat) ==
    IF Len(pat) * 2 < BufferFloor THEN BufferFloor ELSE Len(pat) * 2

\* the while-check loop of search(): check runs over pattern, pattern[:-1],
\* ... down to one byte; the result is the length of the first (longest)
\* check that the valid region buffer[0:sz] ends with, 0 when none does
\* a check loop that gives up before the one-byte prefix
\* (while len(check) > 1)
RECURSIVE CheckLoopSkipsLastByte(_, _, _, _)
CheckLoopSkipsLastByte(b, pat, sz, n) ==
    IF n <= 1 THEN 0
    ELSE IF EndsWith(b, Slice(pat, 0, n), sz) THEN n
    ELSE CheckLoopSkipsLastByte(b, pat, sz, n - 1)

RECURSIVE CheckLoop(_, _, _, _)
CheckLoop(b, pat, sz, n) ==
    IF n = 0 THEN 0
    ELSE IF EndsWith(b, Slice(pat, 0, n), sz) THEN n
    ELSE CheckLoop(b, pat, sz, n - 1)

\* a carry block that keeps every byte after the last match
CarryLenAllUnmatched(b, pat, sz, lme) ==
    IF lme < sz THEN (IF lme < 0 THEN sz ELSE sz - lme) ELSE 0

\* a carry block without the last_match_end < size condition
CarryLenWithoutEndCheck(b, pat, sz, lme) == CheckLoop(b, pat, sz, Len(pat))

\* size_adjust after the carry block: the check loop runs only when the last
\* match did not end exactly at the end of the valid region
CarryLen(b, pat, sz, lme) ==
    IF lme < sz THEN CheckLoop(b, pat, sz, Len(pat)) ELSE 0

\* a carry block that sets size_adjust but leaves out the slice assignment
CarryCopyOmitted(b, sz, k) == b

\* buffer[0:k] = buffer[sz - k:sz]
CarryCopy(b, sz, k) ==
    [i \in 1..Len(b) |-> IF i <= k THEN b[sz - k + i] ELSE b[i]]

\* a read into the buffer itself, not into the view that starts after the
\* carried bytes
ReadIntoAtStart(b, at, chunk) ==
    [i \in 1..Len(b) |-> IF i <= Len(chunk) THEN chunk[i] ELSE b[i]]

\* f.readinto(memoryview(buffer)[at:]) delivering the bytes chunk
ReadInto(b, at, chunk) ==
    [i \in 1..Len(b) |->
        IF i > at /\ i <= at + Len(chunk) THEN chunk[i - at] ELSE b[i]]

\* ------------------------------------------------------------------------
\* BgrepApplication.on_match_found(): sanitizing the slice
\* ------------------------------------------------------------------------

\* the while loop of on_match_found(): i runs from len(s) - 1 down to
\* len(pattern), replacing s[i] when it is not printable ASCII
\* a sanitizing loop that stops one byte early (while i > len(self.pattern))
RECURSIVE SanitizeStopsEarly(_, _, _)
SanitizeStopsEarly(s, patLen, i) ==
    IF i <= patLen THEN s
    ELSE SanitizeStopsEarly(
           IF s[i + 1] < PrintableLo \/ s[i + 1] > PrintableHi
           THEN [s EXCEPT ![i + 1] = SpaceByte] ELSE s,
           patLen, i - 1)

RECURSIVE Sanitize(_, _, _)
Sanitize(s, patLen, i) ==
    IF i < patLen THEN s
    ELSE Sanitize(
           IF s[i + 1] < PrintableLo \/ s[i + 1] > PrintableHi
           THEN [s EXCEPT ![i + 1] = SpaceByte] ELSE s,
           patLen, i - 1)

\* the line on_match_found() prints for the slice s
OnMatchFound(s, patLen) == Sanitize(s, patLen, Len(s) - 1)

\* a slice clipped to the capacity of the buffer instead of its valid length
MatchSliceToCapacity(b, idx, patLen, sz) ==
    Slice(b, idx, Min(idx + patLen + ContextLen, Len(b)))

\* s = buffer[index:s_end] with s_end clipped to size
MatchSlice(b, idx, patLen, sz) ==
    Slice(b, idx, Min(idx + patLen + ContextLen, sz))

\* ------------------------------------------------------------------------
\* State
\* ------------------------------------------------------------------------

VARIABLES
    pattern,        \* self.pattern, the bytes searched for
    argsKind,       \* what the command line is: "ok", "help", "version", "invalid"
    paths,          \* self.paths: one sequence of files per path argument
    stdin,          \* the file behind self.stdin
    pc,             \* where main() is
    status,         \* what main() returned, -1 while it has not
    raised,         \* the exception that left main(), "none" while none has
    pathIdx,        \* FileIterator: the path argument being expanded
    fileIdx,        \* FileIterator: the file of it yielded last, 0 for none
    yielded,        \* FileIterator: "none", "file", "default" or "end"
    open,           \* the files opened by the iterator and not closed
    closed,         \* ghost: the files close() was called on, in order
    run_buffer,     \* run()'s buffer variable: "None" or "buffer"
    allocs,         \* ghost: how many times search() created a bytearray
    buffer,         \* search()'s buffer, << >> before the first one is created
    size,           \* search(): valid length of the buffer
    index,          \* search(): result of the last find()
    last_match_end, \* search(): end of the last match of this pass
    size_adjust,    \* search(): bytes carried to the start of the buffer
    pos,            \* bytes the current file has delivered so far
    eof,            \* a readinto() of the current file has returned 0
    base,           \* ghost: stream offset of buffer[0]
    chunks,         \* ghost: sizes of the non-empty reads of the current file
    searched,       \* ghost: the files search() was called on, in order
    records,        \* the match records emitted, in order
    warnings,       \* the warnings logged, in order
    matcher         \* the matcher's call: its arguments and its result

inputs == <<pattern, argsKind, paths, stdin>>

iterVars == <<pathIdx, fileIdx, yielded, open, closed>>

runVars == <<run_buffer, allocs>>

scanVars == <<buffer, size, index, last_match_end, size_adjust, pos, eof, base,
              chunks>>

vars == <<inputs, pc, status, raised, iterVars, runVars, scanVars, searched,
          records, warnings, matcher>>

\* ------------------------------------------------------------------------
\* Inputs
\* ------------------------------------------------------------------------

\* byte values of the exhaustive inputs: a printable and a non-printable one
Alphabet == {97, 7}

\* all byte strings over Alphabet of length lo..hi
SeqsOf(lo, hi) == UNION {[1..n -> Alphabet] : n \in lo..hi}

\* short: readinto() may deliver fewer bytes than there is room for (a pipe
\* or a terminal); otherwise it fills the room while the file has bytes
File(d, o, b, sh) == [data |-> d, openable |-> o, bad |-> b, short |-> sh]

\* what a path argument can expand to: nothing, one readable file, a file
\* open() fails on, a file whose reads may fail, a directory of two files
PathArgs ==
    { << >>,
      << File(<<97, 7, 97>>, TRUE, FALSE, FALSE) >>,
      << File(<<7, 97, 97>>, FALSE, FALSE, FALSE) >>,
      << File(<<97, 97, 7>>, TRUE, TRUE, TRUE) >>,
      << File(<<7, 7>>, TRUE, FALSE, FALSE),
         File(<<97, 7, 7, 97>>, TRUE, FALSE, TRUE) >> }

PathLists == UNION {[1..n -> PathArgs] : n \in 1..MaxPaths}

\* filler following the pattern in the long haystacks: printable bytes, the
\* two edges of the printable range and bytes on either side of it
Filler == [i \in 1..MaxTail |->
             CASE i % 6 = 1 -> 120
               [] i % 6 = 2 -> 31
               [] i % 6 = 3 -> 32
               [] i % 6 = 4 -> 126
               [] i % 6 = 5 -> 127
               [] OTHER     -> 200]

\* haystacks long enough for a match to have its full context and for the
\* buffer to fill up: up to one leading byte, the pattern, a filler tail and
\* possibly the pattern again with one more byte
LongHaystacks(pat) ==
    {lead \o pat \o SubSeq(Filler, 1, t) \o trail :
        lead \in {<< >>, <<120>>}, t \in (MaxTail - 4)..MaxTail,
        trail \in {<< >>, pat \o <<33>>}}

\* the pattern of the runs that need a buffer larger than the floor
LongPattern == [i \in 1..(BufferFloor \div 2 + 1) |-> IF i = 1 THEN 97 ELSE 7]

\* no call of the matcher is modelled in a run of main()
NoCall == [needle |-> << >>, haystack |-> << >>, offset |-> 0, length |-> -1,
           result |-> [kind |-> "no call"]]

StdinId == <<0, 0>>

\* the file being scanned
CurId == IF yielded = "default" THEN StdinId ELSE <<pathIdx, fileIdx>>

CurFile == IF yielded = "default" THEN stdin ELSE paths[pathIdx][fileIdx]

\* ------------------------------------------------------------------------
\* Initial states
\* ------------------------------------------------------------------------

\* the state in which main() is entered
Start ==
    /\ pc = "parse"
    /\ status = -1
    /\ raised = "none"
    /\ pathIdx = 1
    /\ fileIdx = 0
    /\ yielded = "none"
    /\ open = {}
    /\ closed = << >>
    /\ run_buffer = "None"
    /\ allocs = 0
    /\ buffer = << >>
    /\ size = 0
    /\ index = -1
    /\ last_match_end = -1
    /\ size_adjust = 0
    /\ pos = 0
    /\ eof = FALSE
    /\ base = 0
    /\ chunks = << >>
    /\ searched = << >>
    /\ records = << >>
    /\ warnings = << >>

\* no path argument: every pattern against every haystack on standard input
InitExhaustive ==
    /\ argsKind = "ok"
    /\ pattern \in SeqsOf(0, MaxPatLen)
    /\ paths = << >>
    /\ \E h \in SeqsOf(0, MaxHayLen) : stdin = File(h, TRUE, FALSE, TRUE)

\* no path argument: a long haystack on standard input
InitContext ==
    /\ argsKind = "ok"
    /\ pattern \in {<<7>>, <<97, 7>>}
    /\ paths = << >>
    /\ \E h \in LongHaystacks(pattern) : stdin = File(h, TRUE, FALSE, FALSE)

\* one or more path arguments
InitPaths ==
    /\ argsKind = "ok"
    /\ pattern \in {<<97>>, <<7, 97>>}
    /\ paths \in PathLists
    /\ stdin = File(<<97, 7, 97>>, TRUE, FALSE, TRUE)

\* no path argument: a pattern longer than half the floor, in a haystack that
\* does not fit the buffer
InitLongPattern ==
    /\ argsKind = "ok"
    /\ pattern = LongPattern
    /\ paths = << >>
    /\ stdin = File(SubSeq(Filler, 1, 20) \o LongPattern \o <<120>>,
                    TRUE, FALSE, FALSE)

\* a command line that parse_args() does not turn into an application, and
\* standard input failing
InitOther ==
    \/ /\ argsKind \in {"help", "version", "invalid"}
       /\ pattern = <<97>>
       /\ paths = << >>
       /\ stdin = File(<<97>>, TRUE, FALSE, TRUE)
    \/ /\ argsKind = "ok"
       /\ pattern = <<97>>
       /\ paths = << >>
       /\ stdin = File(<<97, 7, 97>>, TRUE, TRUE, TRUE)

Init ==
    /\ Start
    /\ matcher = NoCall
    /\ \/ InitExhaustive
       \/ InitContext
       \/ InitPaths
       \/ InitLongPattern
       \/ InitOther

\* ------------------------------------------------------------------------
\* main(): parsing the command line
\* ------------------------------------------------------------------------

\* exit_code of the ArgumentParser.Error that parse_args() raises: argparse's
\* help and version actions call exit() with its default status, error()
\* calls exit(status=EXIT_ARGS)
ParseExitCode(kind) ==
    IF kind = "invalid" THEN EXIT_ARGS ELSE EXIT_SUCCESS

\* main(): parse_args() returns the application and run() starts
ParseOk ==
    /\ pc = "parse"
    /\ argsKind = "ok"
    /\ pc' = "iter"
    /\ UNCHANGED <<matcher, runVars, inputs,
                   status, raised, iterVars, scanVars, searched, records,
                   warnings>>

\* main(): parse_args() raises ArgumentParser.Error, main returns its exit_code
ParseExit ==
    /\ pc = "parse"
    /\ argsKind # "ok"
    /\ pc' = "exit"
    /\ status' = ParseExitCode(argsKind)
    /\ UNCHANGED <<matcher, runVars, inputs,
                   raised, iterVars, scanVars, searched, records,
                   warnings>>

\* ------------------------------------------------------------------------
\* FileIterator, as iterated by run()
\* ------------------------------------------------------------------------

\* the attributes an instance of run()'s MyFileIterator has: those of
\* FileIterator; log_warning() is a method of BgrepApplication
MyFileIteratorAttrs ==
    {"paths", "default", "__iter__", "on_error", "_iter_pattern", "_walk",
     "FileInfo"}

\* MyFileIterator.on_error(): self.log_warning(message), self being the
\* iterator; the attribute lookup raises AttributeError when it fails
OnError(w, id) ==
    IF "log_warning" \in MyFileIteratorAttrs
    THEN [raised |-> "none", warnings |-> Append(w, id)]
    ELSE [raised |-> "AttributeError", warnings |-> w]

\* the generator resumed after having yielded file fi of path argument pi
\* (fi = 0: none yet): runs on to the next file it can open, to an error
\* that on_error() raises on, or to the end of the path arguments
RECURSIVE IterAdvance(_, _, _)
IterAdvance(pi, fi, w) ==
    IF pi > Len(paths)
    THEN [kind |-> "end", pi |-> pi, fi |-> fi, warnings |-> w, raised |-> "none"]
    ELSE IF Len(paths[pi]) = 0
    THEN LET r == OnError(w, <<pi, 0>>)
         IN IF r.raised # "none"
            THEN [kind |-> "raise", pi |-> pi, fi |-> 0, warnings |-> r.warnings,
                  raised |-> r.raised]
            ELSE IterAdvance(pi + 1, 0, r.warnings)
    ELSE IF fi >= Len(paths[pi]) THEN IterAdvance(pi + 1, 0, w)
    ELSE IF paths[pi][fi + 1].openable
    THEN [kind |-> "yield", pi |-> pi, fi |-> fi + 1, warnings |-> w,
          raised |-> "none"]
    ELSE LET r == OnError(w, <<pi, fi + 1>>)
         IN IF r.raised # "none"
            THEN [kind |-> "raise", pi |-> pi, fi |-> fi + 1,
                  warnings |-> r.warnings, raised |-> r.raised]
            ELSE IterAdvance(pi, fi + 1, r.warnings)

\* a generator that yields the file without the try/finally around the yield
OpenAfterResumeWithoutFinally == open

\* resuming the generator first leaves the try block around the yield:
\* finally f.close()
OpenAfterResume == IF yielded = "file" THEN open \ {<<pathIdx, fileIdx>>} ELSE open

\* the close() calls once the generator has left the try block
ClosedAfterResume ==
    IF yielded = "file" THEN Append(closed, <<pathIdx, fileIdx>>) ELSE closed

\* run(): the for loop gets the next file of the path arguments
IterYieldFile ==
    /\ pc = "iter"
    /\ yielded \in {"none", "file"}
    /\ LET r == IterAdvance(pathIdx, fileIdx, warnings)
       IN /\ r.kind = "yield"
          /\ pathIdx' = r.pi
          /\ fileIdx' = r.fi
          /\ warnings' = r.warnings
          /\ open' = OpenAfterResume \cup {<<r.pi, r.fi>>}
    /\ closed' = ClosedAfterResume
    /\ yielded' = "file"
    /\ pc' = "search"
    /\ UNCHANGED <<matcher, runVars, inputs,
                   status, raised, scanVars, searched, records>>

\* run(): on_error() raises inside the generator; nothing in run() or main()
\* catches it
IterError ==
    /\ pc = "iter"
    /\ yielded \in {"none", "file"}
    /\ LET r == IterAdvance(pathIdx, fileIdx, warnings)
       IN /\ r.kind = "raise"
          /\ pathIdx' = r.pi
          /\ fileIdx' = r.fi
          /\ warnings' = r.warnings
          /\ raised' = r.raised
    /\ open' = OpenAfterResume
    /\ closed' = ClosedAfterResume
    /\ yielded' = "end"
    /\ pc' = "raised"
    /\ UNCHANGED <<matcher, runVars, inputs,
                   status, scanVars, searched, records>>

\* an iterator that yields the default without looking at the list of paths
IterYieldDefaultIgnoringPaths ==
    /\ pc = "iter"
    /\ yielded = "none"
    /\ yielded' = "default"
    /\ pc' = "search"
    /\ UNCHANGED <<matcher, runVars, inputs, status, raised, pathIdx, fileIdx,
                   open, closed, scanVars, searched, records, warnings>>

\* run(): the list of paths was empty, the iterator yields the default
IterYieldDefault ==
    /\ pc = "iter"
    /\ yielded = "none"
    /\ Len(paths) = 0
    /\ yielded' = "default"
    /\ pc' = "search"
    /\ UNCHANGED <<matcher, runVars, inputs, status, raised, pathIdx, fileIdx,
                   open, closed, scanVars, searched, records, warnings>>

\* run(): the iterator is exhausted, run() returns and main() returns
\* EXIT_SUCCESS
IterStop ==
    /\ pc = "iter"
    /\ \/ yielded = "default"
       \/ /\ yielded \in {"none", "file"}
          /\ Len(paths) > 0
          /\ IterAdvance(pathIdx, fileIdx, warnings).kind = "end"
    /\ warnings' = IF yielded = "default" THEN warnings
                   ELSE IterAdvance(pathIdx, fileIdx, warnings).warnings
    /\ open' = OpenAfterResume
    /\ closed' = ClosedAfterResume
    /\ yielded' = "end"
    /\ pc' = "exit"
    /\ status' = EXIT_SUCCESS
    /\ UNCHANGED <<matcher, runVars, inputs,
                   raised, pathIdx, fileIdx, scanVars, searched,
                   records>>

\* ------------------------------------------------------------------------
\* BgrepApplication.search()
\* ------------------------------------------------------------------------

\* search() is entered: the buffer is created if it is None, and the first
\* readinto() is about to write at the start of it
SearchBegin ==
    /\ pc = "search"
    /\ buffer' = IF run_buffer = "None" THEN ZeroBytes(BufferSize(pattern))
                  ELSE buffer
    /\ allocs' = IF run_buffer = "None" THEN allocs + 1 ELSE allocs
    /\ size' = 0
    /\ index' = -1
    /\ last_match_end' = -1
    /\ size_adjust' = 0
    /\ pos' = 0
    /\ eof' = FALSE
    /\ base' = 0
    /\ chunks' = << >>
    /\ searched' = Append(searched, CurId)
    /\ pc' = "read"
    /\ UNCHANGED <<matcher, run_buffer, inputs,
                   status, raised, iterVars, records,
                   warnings>>

\* size = f.readinto(next_read_buffer); size += size_adjust.  The file
\* delivers at least one byte while it has any, never more than fit after
\* the carried bytes, and 0 bytes at its end.
Read ==
    /\ pc = "read"
    /\ LET rest == Len(CurFile.data) - pos
           room == Len(buffer) - size_adjust
       IN \E n \in 0..Min(rest, room) :
            /\ (n = 0) <=> (rest = 0 \/ room = 0)
            /\ CurFile.short \/ n = Min(rest, room)
            /\ buffer' = ReadInto(buffer, size_adjust,
                                  Slice(CurFile.data, pos, pos + n))
            /\ size' = n + size_adjust
            /\ pos' = pos + n
            /\ eof' = (eof \/ n = 0)
            /\ chunks' = IF n = 0 THEN chunks ELSE Append(chunks, n)
    /\ base' = pos - size_adjust
    /\ pc' = "test"
    /\ UNCHANGED <<matcher, runVars, inputs,
                   status, raised, iterVars, index, last_match_end,
                   size_adjust, searched, records, warnings>>

\* readinto() raises IOError: search() lets it through (run()'s buffer
\* variable keeps its value), run() catches it and calls files.on_error(),
\* which either logs the warning or raises.  An exception leaving run()
\* unwinds its for loop: the suspended generator loses its last reference
\* and CPython finalizes it at once, which runs finally f.close().
ReadError ==
    /\ pc = "read"
    /\ CurFile.bad
    /\ LET r == OnError(warnings, CurId)
       IN /\ warnings' = r.warnings
          /\ raised' = r.raised
          /\ pc' = IF r.raised # "none" THEN "raised" ELSE "iter"
          /\ open' = IF r.raised # "none" THEN OpenAfterResume ELSE open
          /\ closed' = IF r.raised # "none" THEN ClosedAfterResume ELSE closed
    /\ UNCHANGED <<matcher, runVars, inputs, status, pathIdx, fileIdx, yielded,
                   scanVars, searched, records>>

\* while size > 0: a pass starts with last_match_end = -1 and the first find()
LoopEnter ==
    /\ pc = "test"
    /\ size > 0
    /\ last_match_end' = -1
    /\ index' = Find(buffer, pattern, 0, size)
    /\ pc' = "inner"
    /\ UNCHANGED <<matcher, runVars, inputs,
                   status, raised, iterVars, buffer, size, size_adjust,
                   pos, eof, base, chunks, searched, records, warnings>>

\* size is 0: search() returns the buffer and run() keeps it for the next
\* source
SearchReturn ==
    /\ pc = "test"
    /\ size <= 0
    /\ run_buffer' = "buffer"
    /\ pc' = "iter"
    /\ UNCHANGED <<matcher, allocs, inputs, status, raised, iterVars, scanVars,
                   searched, records, warnings>>

\* an inner loop that hands on_match_found() a view of the buffer instead of
\* the copy a slice makes: the sanitized bytes end up in the buffer
MatchFoundSanitizingInPlace ==
    /\ pc = "inner"
    /\ index >= 0
    /\ Len(records) < MaxRecords
    /\ LET s == MatchSlice(buffer, index, Len(pattern), size)
           b == ReadInto(buffer, index, OnMatchFound(s, Len(pattern)))
       IN /\ records' = Append(records,
                           [src  |-> CurId,
                            off  |-> base + index,
                            end  |-> base + size,
                            raw  |-> s,
                            line |-> OnMatchFound(s, Len(pattern))])
          /\ buffer' = b
          /\ index' = Find(b, pattern, index + Len(pattern), size)
    /\ last_match_end' = index + Len(pattern)
    /\ UNCHANGED <<matcher, runVars, inputs,
                   pc, status, raised, iterVars, size,
                   size_adjust, pos, eof, base, chunks, searched, warnings>>

\* while index >= 0: the slice is reported, the search goes on after the match
MatchFound ==
    /\ pc = "inner"
    /\ index >= 0
    /\ Len(records) < MaxRecords
    /\ LET s == MatchSlice(buffer, index, Len(pattern), size)
       IN records' = Append(records,
                        [src  |-> CurId,
                         off  |-> base + index,
                         end  |-> base + size,
                         raw  |-> s,
                         line |-> OnMatchFound(s, Len(pattern))])
    /\ last_match_end' = index + Len(pattern)
    /\ index' = Find(buffer, pattern, index + Len(pattern), size)
    /\ UNCHANGED <<matcher, runVars, inputs,
                   pc, status, raised, iterVars, buffer, size,
                   size_adjust, pos, eof, base, chunks, searched, warnings>>

\* no further match in this pass: a trailing partial match is copied to the
\* start of the buffer and the next read is set up to write after it
CarryCheck ==
    /\ pc = "inner"
    /\ index < 0
    /\ LET k == CarryLen(buffer, pattern, size, last_match_end)
       IN /\ buffer' = CarryCopy(buffer, size, k)
          /\ size_adjust' = k
    /\ pc' = "read"
    /\ UNCHANGED <<matcher, runVars, inputs,
                   status, raised, iterVars, size, index,
                   last_match_end, pos, eof, base, chunks, searched, records,
                   warnings>>

\* ------------------------------------------------------------------------
\* Specification
\* ------------------------------------------------------------------------

Next ==
    \/ ParseOk
    \/ ParseExit
    \/ IterYieldFile
    \/ IterError
    \/ IterYieldDefault
    \/ IterStop
    \/ SearchBegin
    \/ Read
    \/ ReadError
    \/ LoopEnter
    \/ SearchReturn
    \/ MatchFound
    \/ CarryCheck

Spec == Init /\ [][Next]_vars

\* the inputs of the runs whose termination is checked: short patterns and
\* haystacks on standard input, one path argument, the other command lines
InitLive ==
    /\ Start
    /\ matcher = NoCall
    /\ \/ /\ argsKind = "ok"
          /\ pattern \in SeqsOf(1, 2)
          /\ paths = << >>
          /\ \E h \in SeqsOf(0, 3) : stdin = File(h, TRUE, FALSE, TRUE)
       \/ /\ argsKind = "ok"
          /\ pattern = <<97>>
          /\ paths \in [1..1 -> PathArgs]
          /\ stdin = File(<<97>>, TRUE, FALSE, TRUE)
       \/ InitOther

\* the program is single-threaded and always takes its next step
FairSpec == InitLive /\ [][Next]_vars /\ WF_vars(Next)

TypeOK ==
    /\ pc \in {"parse", "iter", "search", "read", "test", "inner", "exit", "raised"}
    /\ status \in {-1, EXIT_SUCCESS, EXIT_ERROR, EXIT_ARGS}
    /\ size \in 0..Len(buffer)
    /\ index \in -1..size

\* ------------------------------------------------------------------------
\* search() on a source that delivers all its bytes in the first read
\* ------------------------------------------------------------------------

\* the inner while loop of one pass over buffer[0:sz], from the find() result
\* idx on: the buffer indexes reported and the resulting last_match_end
RECURSIVE InnerLoop(_, _, _, _, _, _)
InnerLoop(b, pat, sz, idx, lme, acc) ==
    IF idx < 0 THEN [found |-> acc, lme |-> lme]
    ELSE InnerLoop(b, pat, sz, Find(b, pat, idx + Len(pat), sz),
                   idx + Len(pat), acc \cup {idx})

\* the outer while loop once the source is at its end (every further
\* readinto() returns 0): the stream offsets reported from this pass on.
\* The loop is left when size is 0; when a pass hands the next one the very
\* state it started in, no later pass reports anything new.
RECURSIVE PassesAtEnd(_, _, _, _, _)
PassesAtEnd(b, pat, sz, bs, acc) ==
    IF sz = 0 THEN acc
    ELSE LET r   == InnerLoop(b, pat, sz, Find(b, pat, 0, sz), -1, {})
             k   == CarryLen(b, pat, sz, r.lme)
             b2  == CarryCopy(b, sz, k)
             all == acc \cup {bs + i : i \in r.found}
         IN IF b2 = b /\ k = sz THEN all
            ELSE PassesAtEnd(b2, pat, k, bs + sz - k, all)

\* the stream offsets search() reports for the bytes h read as one chunk
\* (h fits the buffer, pat is not empty)
OneChunkOffsets(h, pat) ==
    PassesAtEnd(ReadInto(ZeroBytes(BufferSize(pat)), 0, h), pat, Len(h), 0, {})

\* ------------------------------------------------------------------------
\* Vocabulary of the properties
\* ------------------------------------------------------------------------

Range(f) == {f[i] : i \in DOMAIN f}

\* the file a source id stands for
FileOf(id) == IF id = StdinId THEN stdin ELSE paths[id[1]][id[2]]

\* positions in records of the records of source id
RecordIdx(id) == {i \in DOMAIN records : records[i].src = id}

\* stream offsets reported for source id
OffsetsOf(id) == {records[i].off : i \in RecordIdx(id)}

\* 0-based offsets of all occurrences of pat in h
Occurrences(h, pat) ==
    {i \in 0..(Len(h) - Len(pat)) : Slice(h, i, i + Len(pat)) = pat}

\* a file is being scanned, or was the last one scanned
HasSource == yielded \in {"file", "default"}

\* search() is running
InSearch == pc \in {"read", "test", "inner"}

\* every byte of the current file has been read and a matching pass over the
\* last bytes has completed
AllSearched ==
    /\ HasSource
    /\ pc \in {"read", "iter"}
    /\ chunks # << >>
    /\ pos = Len(CurFile.data)

\* a matching pass has completed after a readinto() returned 0, or search()
\* has returned: nothing more will be reported for the current file
Settled ==
    /\ HasSource
    /\ pc \in {"read", "iter"}
    /\ eof

RECURSIVE SumTo(_, _)
SumTo(q, n) == IF n = 0 THEN 0 ELSE SumTo(q, n - 1) + q[n]

\* stream offsets at which one read ended and the next one started
Boundaries == {SumTo(chunks, n) : n \in 1..(Len(chunks) - 1)}

\* ------------------------------------------------------------------------
\* Properties
\* ------------------------------------------------------------------------

\* C1: with a non-empty pattern, once a read of the source has returned zero
\* bytes the scan eventually ends, also when the source ends with a proper
\* prefix of the pattern.
C1_ScanTerminates ==
    (InSearch /\ eof /\ pattern # << >>) ~> (~InSearch)

\* C2: whatever non-empty chunks the reads split the haystack into, the
\* stream offsets reported are those reported when the haystack arrives in
\* one chunk.
C2_ChunkBoundaryInvariance ==
    (Settled /\ pattern # << >> /\ Len(CurFile.data) <= Len(buffer))
        => OffsetsOf(CurId) = OneChunkOffsets(CurFile.data, pattern)

\* C3: when the haystack contains exactly one occurrence of the non-empty
\* pattern, at most one record is ever emitted, none anywhere else than at
\* the occurrence, and once all bytes have been searched exactly one.
C3_SingleOccurrenceReportedOnce ==
    (HasSource /\ (InSearch \/ pc = "iter") /\ pattern # << >>
       /\ Cardinality(Occurrences(CurFile.data, pattern)) = 1)
        => /\ Cardinality(RecordIdx(CurId)) <= 1
           /\ OffsetsOf(CurId) \subseteq Occurrences(CurFile.data, pattern)
           /\ AllSearched => Cardinality(RecordIdx(CurId)) = 1

\* C3 witness: the single occurrence of a three-byte pattern arrived in three
\* chunks, each read ending inside it, and has been reported.
C3_Witness ==
    /\ AllSearched
    /\ Len(pattern) = 3
    /\ Cardinality(Occurrences(CurFile.data, pattern)) = 1
    /\ \E i \in RecordIdx(CurId) :
          {records[i].off + 1, records[i].off + 2} \subseteq Boundaries

\* C4: with an empty pattern no offset is reported twice, and when the scan
\* of a haystack of length N is over a match has been reported at every
\* offset 0..N.
C4_EmptyPatternFullCoverage ==
    (HasSource /\ pattern = << >>)
        => /\ \A i, j \in RecordIdx(CurId) :
                 i # j => records[i].off # records[j].off
           /\ (pc = "iter" /\ eof)
                 => OffsetsOf(CurId) = 0..Len(CurFile.data)

\* C5: with a non-empty pattern the spans of two reported matches of one
\* source never overlap: a later match starts at or after the end of every
\* earlier one.
C5_MatchesDisjoint ==
    pattern # << >>
        => \A i, j \in DOMAIN records :
              (i < j /\ records[i].src = records[j].src)
                 => records[i].off + Len(pattern) <= records[j].off

\* C6: a read error on a source is logged as a warning naming the source,
\* raises nothing out of run(), and run() goes on to the next source.
C6_ReadErrorAbortsOnlyThatSource ==
    [][ReadError => /\ raised' = "none"
                    /\ pc' = "iter"
                    /\ warnings' = Append(warnings, CurId)]_vars

\* C7: when main() is over, every path argument that matched nothing and
\* every file that could not be opened has its warning, and every file that
\* could be opened has been scanned.
C7_BadPathDoesNotStopOthers ==
    (argsKind = "ok" /\ pc \in {"exit", "raised"})
        => \A pi \in DOMAIN paths :
              /\ paths[pi] = << >> => <<pi, 0>> \in Range(warnings)
              /\ \A fi \in DOMAIN paths[pi] :
                    IF paths[pi][fi].openable
                    THEN <<pi, fi>> \in Range(searched)
                    ELSE <<pi, fi>> \in Range(warnings)

\* C8: every record holds the bytes of the stream from the start of the
\* match up to len(pattern) + 20 bytes further, clipped at the end of the
\* bytes valid in the buffer when it was emitted: the pattern itself followed
\* by at most 20 bytes of context.
C8_SliceIsPatternPlusContext ==
    \A i \in DOMAIN records :
        LET r == records[i]
            d == FileOf(r.src).data
        IN /\ r.end <= Len(d)
           /\ r.raw = Slice(d, r.off,
                            Min(r.off + Len(pattern) + ContextLen, r.end))
           /\ Slice(r.raw, 0, Len(pattern)) = pattern
           /\ Len(r.raw) <= Len(pattern) + ContextLen

\* C8 witness: one record has its full 20 bytes of context with more valid
\* bytes behind them, another one was clipped at the end of the valid bytes.
C8_Witness ==
    /\ \E i \in DOMAIN records :
          /\ Len(records[i].raw) = Len(pattern) + ContextLen
          /\ records[i].end > records[i].off + Len(pattern) + ContextLen
    /\ \E i \in DOMAIN records :
          /\ Len(records[i].raw) < Len(pattern) + ContextLen
          /\ records[i].end = records[i].off + Len(records[i].raw)
          /\ Len(records[i].raw) > Len(pattern)

\* C9: in every record the bytes of the pattern span are those of the
\* stream, and each context byte is the stream's byte when that is in
\* 32..126 and a space otherwise.
C9_ContextSanitized ==
    \A i \in DOMAIN records :
        LET r == records[i]
            d == FileOf(r.src).data
        IN /\ Len(r.line) = Len(r.raw)
           /\ \A k \in 1..Len(r.line) :
                 LET byte == d[r.off + k]
                 IN r.line[k] = IF k <= Len(pattern) THEN byte
                                ELSE IF byte >= 32 /\ byte <= 126 THEN byte
                                ELSE 32

\* C9 witness: a record whose pattern span holds a non-printable byte, and
\* whose context held a byte below 32, a byte above 126 and a printable one.
C9_Witness ==
    \E i \in DOMAIN records :
        LET r == records[i]
        IN /\ \E k \in 1..Len(pattern) : r.line[k] = 7
           /\ \E k \in (Len(pattern) + 1)..Len(r.raw) :
                 r.raw[k] < 32 /\ r.line[k] = 32
           /\ \E k \in (Len(pattern) + 1)..Len(r.raw) :
                 r.raw[k] > 126 /\ r.line[k] = 32
           /\ \E k \in (Len(pattern) + 1)..Len(r.raw) :
                 r.raw[k] = 126 /\ r.line[k] = 126

\* C10: main() never lets an exception out; it returns 2 exactly when the
\* command line was invalid and otherwise 0 or, after a runtime error, 1.
C10_MainReturnsStatus ==
    /\ raised = "none"
    /\ pc # "raised"
    /\ pc = "exit" =>
          /\ status \in {EXIT_SUCCESS, EXIT_ERROR, EXIT_ARGS}
          /\ status = EXIT_ARGS <=> argsKind = "invalid"

\* C11: standard input is scanned exactly when there is no path argument:
\* with none, the iterator yields standard input and nothing else; with one
\* or more, it never yields standard input, whether or not they resolve.
C11_StdinIffNoPaths ==
    /\ (yielded = "default" \/ StdinId \in Range(searched)) => Len(paths) = 0
    /\ Len(paths) = 0 =>
          /\ \A i \in DOMAIN searched : i = 1 /\ searched[i] = StdinId
          /\ (argsKind = "ok" /\ pc \in {"search", "read", "test", "inner", "exit"})
                => yielded \in {"default", "end"}
          /\ (argsKind = "ok" /\ pc = "exit") => searched = <<StdinId>>

\* C11 witness: a run without path arguments has scanned standard input and
\* main() has returned.
C11_Witness ==
    /\ Len(paths) = 0
    /\ pc = "exit"
    /\ searched = <<StdinId>>
    /\ OffsetsOf(StdinId) # {}

\* ------------------------------------------------------------------------
\* The matcher: search(haystack, offset, length) of a fixed needle.  A length
\* of -1 stands for None, "the rest of the haystack".  The result is NoMatch
\* or a match with its position, its length and its continuation state:
\* 0 for none, otherwise the number of needle bytes confirmed so far.
\* ------------------------------------------------------------------------

\* longest haystack handed to the matcher
MaxMatcherHay == 4

NoMatch == [kind |-> "none"]

Match(p, n, st) == [kind |-> "match", pos |-> p, len |-> n, state |-> st]

\* a region that always runs to the end of the haystack
RegionEndIgnoresLength(h, off, len) == Len(h)

\* where the searched region ends
RegionEnd(h, off, len) == IF len = -1 THEN Len(h) ELSE Min(off + len, Len(h))

\* the needle compared byte by byte with the haystack at p, m bytes having
\* matched already: the number of bytes that match when the needle or the
\* region ends, -1 on the first mismatch
RECURSIVE MatcherCompare(_, _, _, _, _)
MatcherCompare(h, pat, p, end, m) ==
    IF m = Len(pat) \/ p + m >= end THEN m
    ELSE IF h[p + m + 1] # pat[m + 1] THEN -1
    ELSE MatcherCompare(h, pat, p, end, m + 1)

\* a scan that takes only full occurrences
RECURSIVE MatcherScanFullOnly(_, _, _, _)
MatcherScanFullOnly(h, pat, p, end) ==
    IF p >= end THEN NoMatch
    ELSE IF MatcherCompare(h, pat, p, end, 0) = Len(pat) THEN Match(p, Len(pat), 0)
    ELSE MatcherScanFullOnly(h, pat, p + 1, end)

\* the candidate start positions from p on, in order: the first one at which
\* the needle matches in full, or matches up to the end of the region
RECURSIVE MatcherScan(_, _, _, _)
MatcherScan(h, pat, p, end) ==
    IF p >= end THEN NoMatch
    ELSE LET m == MatcherCompare(h, pat, p, end, 0)
         IN IF m = Len(pat) THEN Match(p, m, 0)
            ELSE IF m > 0 THEN Match(p, m, m)
            ELSE MatcherScan(h, pat, p + 1, end)

\* a search that refuses an offset equal to the length of the haystack
MatcherSearchStrictOffset(pat, h, off, len) ==
    IF off >= Len(h) THEN NoMatch
    ELSE IF pat = << >> THEN Match(off, 0, 0)
    ELSE MatcherScan(h, pat, off, RegionEnd(h, off, len))

MatcherSearch(pat, h, off, len) ==
    IF off > Len(h) THEN NoMatch
    ELSE IF pat = << >> THEN Match(off, 0, 0)
    ELSE MatcherScan(h, pat, off, RegionEnd(h, off, len))

\* every needle, haystack, offset and length within the bounds; the
\* application itself is idle
MatcherInit ==
    /\ Start
    /\ argsKind = "ok"
    /\ pattern = <<97>>
    /\ paths = << >>
    /\ stdin = File(<< >>, TRUE, FALSE, FALSE)
    /\ \E nd \in SeqsOf(0, MaxPatLen), h \in SeqsOf(0, MaxMatcherHay),
          off \in 0..(MaxMatcherHay + 1), len \in -1..MaxMatcherHay :
            matcher = [needle |-> nd, haystack |-> h, offset |-> off,
                       length |-> len, result |-> [kind |-> "pending"]]

\* search() is called and returns
MatcherCall ==
    /\ matcher.result.kind = "pending"
    /\ matcher' = [matcher EXCEPT !.result =
                      MatcherSearch(matcher.needle, matcher.haystack,
                                    matcher.offset, matcher.length)]
    /\ UNCHANGED <<inputs, pc, status, raised, iterVars, runVars, scanVars,
                   searched, records, warnings>>

MatcherNext == MatcherCall

MatcherSpec == MatcherInit /\ [][MatcherNext]_vars

\* the call has returned
Returned == matcher.result.kind \in {"none", "match"}

\* positions of the full occurrences of the needle inside the region
RegionOccurrences ==
    LET end == IF matcher.length = -1 THEN Len(matcher.haystack)
               ELSE Min(matcher.offset + matcher.length, Len(matcher.haystack))
    IN {p \in matcher.offset..(end - Len(matcher.needle)) :
           Slice(matcher.haystack, p, p + Len(matcher.needle)) = matcher.needle}

\* lengths of the non-empty proper prefixes of the needle the region ends with
TrailingPrefixes ==
    LET end == IF matcher.length = -1 THEN Len(matcher.haystack)
               ELSE Min(matcher.offset + matcher.length, Len(matcher.haystack))
    IN {k \in 1..(Len(matcher.needle) - 1) :
           /\ k <= end - matcher.offset
           /\ Slice(matcher.haystack, end - k, end) = Slice(matcher.needle, 0, k)}

SetMin(S) == CHOOSE x \in S : \A y \in S : x <= y

SetMax(S) == CHOOSE x \in S : \A y \in S : x >= y

\* C12: with a non-empty needle, a region holding a full occurrence gives the
\* lowest position of one, the needle's length and no continuation state; a
\* region holding neither a full occurrence nor a trailing proper prefix of
\* the needle gives no match.
C12_FullMatchOrNoMatch ==
    (Returned /\ matcher.needle # << >>)
        => /\ RegionOccurrences # {}
                => matcher.result =
                      Match(SetMin(RegionOccurrences), Len(matcher.needle), 0)
           /\ (RegionOccurrences = {} /\ TrailingPrefixes = {})
                => matcher.result = NoMatch

\* C12 witness: the search started after an earlier occurrence and within a
\* length that excludes a later one, and returned the occurrence in between.
C12_Witness ==
    /\ Returned
    /\ Len(matcher.needle) = 2
    /\ matcher.length # -1
    /\ matcher.result = Match(2, 2, 0)
    /\ matcher.offset = 1
    /\ Slice(matcher.haystack, 0, 2) = matcher.needle

\* C13: with no full occurrence in the region and a non-empty proper prefix
\* of the needle at its end, the result is the start of the longest such
\* prefix, its length (less than the needle's) and a continuation state.
C13_PartialMatch ==
    (Returned /\ RegionOccurrences = {} /\ TrailingPrefixes # {})
        => /\ matcher.result.kind = "match"
           /\ matcher.result.len = SetMax(TrailingPrefixes)
           /\ matcher.result.len < Len(matcher.needle)
           /\ matcher.result.pos =
                 RegionEnd(matcher.haystack, matcher.offset, matcher.length)
                    - SetMax(TrailingPrefixes)
           /\ matcher.result.state # 0

\* C13 witness: a three-byte needle whose first two bytes end the haystack
\* after one other byte (pattern "abc" in "bab").
C13_Witness ==
    /\ Returned
    /\ Len(matcher.needle) = 3
    /\ Len(matcher.haystack) = 3
    /\ matcher.offset = 0
    /\ matcher.result.kind = "match"
    /\ matcher.result.pos = 1
    /\ matcher.result.len = 2
    /\ matcher.result.state # 0

\* C14: the empty needle matches at the offset itself, with length 0 and no
\* continuation state, for every offset up to the length of the haystack and
\* every search length; beyond the haystack there is no match.
C14_EmptyNeedle ==
    (Returned /\ matcher.needle = << >>)
        => matcher.result = IF matcher.offset <= Len(matcher.haystack)
                            THEN Match(matcher.offset, 0, 0)
                            ELSE NoMatch

\* C14 witness: the empty needle searched at the very end of a non-empty
\* haystack with search length 0.
C14_Witness ==
    /\ Returned
    /\ matcher.needle = << >>
    /\ matcher.haystack # << >>
    /\ matcher.offset = Len(matcher.haystack)
    /\ matcher.length = 0
    /\ matcher.result = Match(matcher.offset, 0, 0)

\* ------------------------------------------------------------------------
\* Carry, buffer and sources
\* ------------------------------------------------------------------------

\* C15: whenever bytes are carried across a read boundary, they are a proper
\* prefix of the pattern: between 1 and len(pattern) - 1 bytes, never the
\* whole pattern.
C15_CarryIsProperPrefix ==
    (pc = "read" /\ size_adjust > 0)
        => /\ size_adjust <= Len(pattern) - 1
           /\ Slice(buffer, 0, size_adjust) = Slice(pattern, 0, size_adjust)

\* C16: for every pattern, haystack and chunking, no two records of one
\* source start at the same stream offset.
C16_NoSpanReportedTwice ==
    \A i, j \in DOMAIN records :
       (i # j /\ records[i].src = records[j].src)
          => records[i].off # records[j].off

\* C17: at the start of every matching pass the valid region buffer[0:size]
\* is the segment of the source's bytes that ends at the last byte read so
\* far, and before every read the carried bytes buffer[0:size_adjust] are the
\* last size_adjust bytes read: after a carry of k bytes and a read of n
\* bytes the region is the k last bytes of the previous region followed by
\* the n fresh ones.
C17_RegionIsStreamSegment ==
    /\ pc \in {"test", "inner"}
          => /\ size <= pos
             /\ base = pos - size
             /\ Slice(buffer, 0, size) = Slice(CurFile.data, pos - size, pos)
    /\ (pc = "read" /\ chunks # << >>)
          => /\ size_adjust <= pos
             /\ Slice(buffer, 0, size_adjust)
                   = Slice(CurFile.data, pos - size_adjust, pos)

\* C17 witness: a pass starts on a region made of carried bytes followed by
\* the bytes of a later read, the two being different bytes.
C17_Witness ==
    /\ pc = "test"
    /\ Len(chunks) >= 2
    /\ size_adjust > 0
    /\ size > size_adjust
    /\ buffer[1] # buffer[size_adjust + 1]
    /\ Slice(buffer, 0, size) = Slice(CurFile.data, pos - size, pos)

\* search() called with buffer=None on a source that is scanned first: the
\* inner while loop of one pass, from the find() result idx on, appending to
\* acc the records on_match_found() is called for
RECURSIVE FreshInner(_, _, _, _, _, _, _, _)
FreshInner(id, b, pat, sz, bs, idx, lme, acc) ==
    IF idx < 0 THEN [recs |-> acc, lme |-> lme]
    ELSE LET s == MatchSlice(b, idx, Len(pat), sz)
         IN FreshInner(id, b, pat, sz, bs,
                       Find(b, pat, idx + Len(pat), sz), idx + Len(pat),
                       Append(acc, [src  |-> id,
                                    off  |-> bs + idx,
                                    end  |-> bs + sz,
                                    raw  |-> s,
                                    line |-> OnMatchFound(s, Len(pat))]))

\* the outer while loop over the reads of sizes cs: each pass reads after the
\* at carried bytes, matches, and carries; ps bytes were read before
RECURSIVE FreshScan(_, _, _, _, _, _, _, _)
FreshScan(id, b, pat, data, cs, at, ps, acc) ==
    IF cs = << >> THEN [recs |-> acc, buffer |-> b, adjust |-> at]
    ELSE LET n  == Head(cs)
             b1 == ReadInto(b, at, Slice(data, ps, ps + n))
             sz == n + at
             r  == FreshInner(id, b1, pat, sz, ps - at,
                              Find(b1, pat, 0, sz), -1, acc)
             k  == CarryLen(b1, pat, sz, r.lme)
         IN FreshScan(id, CarryCopy(b1, sz, k), pat, data, Tail(cs), k,
                      ps + n, r.recs)

\* the records of source id when it is the first source of a run, read in
\* chunks of sizes cs, and, when atEnd, followed by a read of 0 bytes and the
\* pass over the carried bytes (later passes at the end repeat that pass's
\* input or have nothing to match)
FreshRecords(id, pat, data, cs, atEnd) ==
    LET r == FreshScan(id, ZeroBytes(BufferSize(pat)), pat, data, cs, 0, 0,
                       << >>)
    IN IF atEnd /\ r.adjust > 0
       THEN FreshInner(id, r.buffer, pat, r.adjust, Len(data) - r.adjust,
                       Find(r.buffer, pat, 0, r.adjust), -1, r.recs).recs
       ELSE r.recs

\* the records emitted for source id, in order
RecordsOf(id) == SelectSeq(records, LAMBDA r : r.src = id)

\* C18: whatever sources were scanned before with the same buffer, after
\* each pass the records emitted for the current source are exactly the
\* records of a scan of it with a fresh buffer as the first source, read in
\* the same chunks.
C18_NoLeakAcrossSources ==
    (HasSource /\ pc \in {"read", "iter"} /\ pattern # << >>
       /\ searched # << >> /\ searched[Len(searched)] = CurId)
        => RecordsOf(CurId)
              = FreshRecords(CurId, pattern, CurFile.data, chunks, eof)

\* C18 witness: a second source is being scanned with the buffer of the
\* first one, a match of it has been reported, and bytes of the earlier
\* source still lie in the buffer beyond everything this source has written.
C18_Witness ==
    /\ pc = "read"
    /\ Len(searched) >= 2
    /\ run_buffer = "buffer"
    /\ RecordsOf(CurId) # << >>
    /\ \E i \in (pos + 1)..Len(buffer) : buffer[i] # 0
    /\ RecordsOf(CurId)
          = FreshRecords(CurId, pattern, CurFile.data, chunks, eof)

\* source a comes before source b in the order of the path arguments and of
\* the files each of them expands to
Precedes(a, b) == a[1] < b[1] \/ (a[1] = b[1] /\ a[2] < b[2])

\* C19: sources are scanned one at a time in the iterator's order; at most
\* one file opened by the iterator is open, it is the one being scanned;
\* every file scanned earlier was closed, in that order, before the next one
\* was opened, and none is open when the run is over, whether its scan
\* returned or was aborted by a read error; standard input is never closed.
C19_OneSourceAtATime ==
    /\ Cardinality(open) <= 1
    /\ \A i, j \in DOMAIN searched : i < j => Precedes(searched[i], searched[j])
    /\ (yielded = "file" /\ (pc = "search" \/ InSearch)) => open = {CurId}
    /\ pc = "search" => Len(closed) = Len(searched)
    /\ Len(closed) <= Len(searched)
    /\ \A i \in DOMAIN closed : closed[i] = searched[i]
    /\ pc \in {"exit", "raised"}
          => /\ open = {}
             /\ Len(paths) > 0 => Len(closed) = Len(searched)
    /\ StdinId \notin open
    /\ StdinId \notin Range(closed)

\* C19 witness: the run is over after a first file whose scan returned and a
\* second one whose scan was aborted by a read error; both were closed.
C19_Witness ==
    /\ pc = "raised"
    /\ Len(searched) = 2
    /\ closed = searched
    /\ FileOf(searched[2]).bad
    /\ pos > 0
    /\ open = {}

\* C20: the buffer is created at most once per run, by the first scan, with
\* capacity max(2 * len(pattern), floor); every later scan uses that buffer
\* and its capacity never changes.
C20_BufferAllocatedOnce ==
    /\ allocs <= 1
    /\ allocs = 0 => (buffer = << >> /\ searched = << >>)
    /\ searched # << >> => allocs = 1
    /\ allocs = 1
          => /\ Len(buffer) >= 2 * Len(pattern)
             /\ Len(buffer) >= BufferFloor
             /\ Len(buffer) \in {2 * Len(pattern), BufferFloor}

\* C20 witness: a later source is scanned in the buffer the first scan
\* created, after a carry copy has been made in it.
C20_Witness ==
    /\ Len(searched) >= 2
    /\ allocs = 1
    /\ run_buffer = "buffer"
    /\ pc = "read"
    /\ size_adjust > 0
    /\ Len(buffer) = BufferFloor

\* C21: with a one-byte pattern nothing is ever carried: size_adjust stays 0,
\* every read writes at buffer offset 0 and the valid region of a pass is
\* exactly the bytes of the last read.
C21_OneBytePatternNeverCarries ==
    Len(pattern) = 1
        => /\ size_adjust = 0
           /\ (pc \in {"test", "inner"} /\ ~eof)
                 => /\ chunks # << >>
                    /\ size = chunks[Len(chunks)]
                    /\ Slice(buffer, 0, size)
                          = Slice(CurFile.data, pos - size, pos)
           /\ (pc = "test" /\ eof) => size = 0

\* C21 witness: a read of a one-byte pattern's source ended with the pattern
\* byte, the byte was reported, nothing was carried, and the next read has
\* written its bytes at the start of the buffer.
C21_Witness ==
    /\ Len(pattern) = 1
    /\ pc = "test"
    /\ Len(chunks) >= 2
    /\ CurFile.data[pos - size] = pattern[1]
    /\ pos - size - 1 \in OffsetsOf(CurId)
    /\ size_adjust = 0
    /\ size = chunks[Len(chunks)]

\* no proper prefix of pat is also a suffix of it: occurrences of pat in a
\* byte string never overlap
SelfOverlapFree(pat) ==
    \A k \in 1..(Len(pat) - 1) :
       Slice(pat, 0, k) # Slice(pat, Len(pat) - k, Len(pat))

\* pat has a byte outside printable ASCII
HasNonPrintable(pat) ==
    \E i \in DOMAIN pat : pat[i] < PrintableLo \/ pat[i] > PrintableHi

\* C22: reporting a match leaves the buffer as it was, and hence, for a
\* pattern with non-printable bytes whose occurrences cannot overlap, once
\* all bytes have been searched every occurrence has been reported, those
\* inside the context of an earlier match included.
C22_ReportLeavesBufferUnchanged ==
    /\ [][MatchFound => buffer' = buffer]_vars
    /\ []((AllSearched /\ pattern # << >> /\ HasNonPrintable(pattern)
             /\ SelfOverlapFree(pattern))
            => OffsetsOf(CurId) = Occurrences(CurFile.data, pattern))

\* C22 witness: two matches of a pattern with a non-printable byte were
\* reported in one pass, the second one lying inside the context of the
\* first, where the printed line has a space in place of its byte.
C22_Witness ==
    /\ HasNonPrintable(pattern)
    /\ \E i, j \in RecordIdx(CurId) :
          /\ i < j
          /\ records[i].end = records[j].end
          /\ records[j].off + Len(pattern)
                <= records[i].off + Len(records[i].raw)
          /\ records[i].line # records[i].raw
          /\ records[i].line[records[j].off - records[i].off + Len(pattern)]
                = SpaceByte

\* C23: with a non-empty pattern every record is an occurrence of the pattern
\* in the bytes of its source at the recorded stream offset, within the bytes
\* read so far, and the records of one source have strictly increasing
\* offsets.
C23_NoFalsePositives ==
    pattern # << >>
        => /\ \A i \in DOMAIN records :
                 LET d == FileOf(records[i].src).data
                     o == records[i].off
                 IN /\ o >= 0
                    /\ o + Len(pattern) <= Len(d)
                    /\ Slice(d, o, o + Len(pattern)) = pattern
                    /\ records[i].src = CurId => o + Len(pattern) <= pos
           /\ \A i, j \in DOMAIN records :
                 (i < j /\ records[i].src = records[j].src)
                    => records[i].off < records[j].off

\* C23 witness: a match that was put together from carried bytes and the
\* bytes of the next read has been reported after an earlier match, while
\* bytes of an earlier, longer read lie beyond the valid length.
C23_Witness ==
    /\ pc = "inner"
    /\ size_adjust > 0
    /\ size_adjust < Len(pattern)
    /\ \E i, j \in RecordIdx(CurId) :
          /\ i < j
          /\ records[j].off = base
          /\ records[j].off + size_adjust \in Boundaries
    /\ \E k \in (size + 1)..Len(buffer) : buffer[k] # 0

\* C24: during a scan 0 <= carried bytes <= valid length <= capacity, the
\* carried bytes leave room in the buffer for the next read, and a read has
\* returned zero bytes only at the end of the source.
C24_ReadRegionNonEmpty ==
    InSearch
        => /\ 0 <= size_adjust
           /\ size_adjust <= size
           /\ size <= Len(buffer)
           /\ Len(buffer) - size_adjust > 0
           /\ eof => pos = Len(CurFile.data)

\* C24 witness: the last read filled the buffer to its capacity, bytes of it
\* are carried, and the source has more bytes for the next read.
C24_Witness ==
    /\ pc = "read"
    /\ size = Len(buffer)
    /\ size_adjust > 0
    /\ pos < Len(CurFile.data)
    /\ ~eof
====
